---- MODULE Spec2Model ----
(***************************************************************************)
(* Model of src/wechat_chat_extractor.py: the key-file parser, the         *)
(* connection fallback loop, the chat-table classifier, the column         *)
(* resolver, the batch extractor and the orchestrating run/main.           *)
(*                                                                         *)
(* Text is modelled with TLA+ strings; Len, SubSeq and \o on strings are   *)
(* used to compute what str.lower, str.strip, str.split, the `in`          *)
(* substring test and the two regular expressions of parse_keys compute.   *)
(***************************************************************************)
EXTENDS Integers, Sequences, FiniteSets, TLC

(***************************************************************************)
(* Bounds of the model.                                                    *)
(***************************************************************************)
\* longest key-descriptor text, in lines, drawn by the parser specification
MaxLines == 4
\* longest descriptor list handed to the orchestrator
MaxDbs == 2
\* longest column list drawn by the resolver and validator specifications
MaxCols == 3
\* longest candidate-fragment list drawn by the resolver specification
MaxCands == 2
\* largest row count drawn by the validator specification
MaxRows == 2
\* longest column list of the table drawn by the record specification
MaxRecCols == 2

(***************************************************************************)
(* String primitives (Python str methods used by the source).              *)
(***************************************************************************)
Uppers == "ABCDEFGHIJKLMNOPQRSTUVWXYZ"
Lowers == "abcdefghijklmnopqrstuvwxyz"
Digits == "0123456789"

CharAt(s, i) == SubSeq(s, i, i)

\* index of the first occurrence of the one-character string c in s from
\* index i on, 0 if none
RECURSIVE IndexOf(_, _, _)
IndexOf(s, c, i) ==
    IF i > Len(s) THEN 0
    ELSE IF CharAt(s, i) = c THEN i ELSE IndexOf(s, c, i + 1)

\* Python: s[i:] with a 0-based i, i.e. the text after the first i characters
Drop(s, i) == SubSeq(s, i + 1, Len(s))

\* Python: s[:i]
Take(s, i) == SubSeq(s, 1, i)

\* Python: sub in s
Contains(sub, s) ==
    \E i \in 1..(Len(s) - Len(sub) + 1) : SubSeq(s, i, i + Len(sub) - 1) = sub

\* Python: s.startswith(p)
StartsWith(s, p) == Len(p) <= Len(s) /\ Take(s, Len(p)) = p

\* Python: s.endswith(p)
EndsWith(s, p) == Len(p) <= Len(s) /\ Drop(s, Len(s) - Len(p)) = p

\* the lower-case letter of each upper-case letter
LowerOf == [i \in 1..Len(Uppers) |-> CharAt(Lowers, i)]
UpperSet == { CharAt(Uppers, i) : i \in 1..Len(Uppers) }

LowerChar(c) == IF c \in UpperSet THEN LowerOf[IndexOf(Uppers, c, 1)] ELSE c

\* Python: s.lower()
RECURSIVE Lower(_)
Lower(s) == IF s = "" THEN "" ELSE LowerChar(CharAt(s, 1)) \o Lower(Drop(s, 1))

IsSpace(c) == c \in {" ", "\t", "\r"}

RECURSIVE LStrip(_)
LStrip(s) == IF s /= "" /\ IsSpace(CharAt(s, 1)) THEN LStrip(Drop(s, 1)) ELSE s

RECURSIVE RStrip(_)
RStrip(s) ==
    IF s /= "" /\ IsSpace(CharAt(s, Len(s))) THEN RStrip(Take(s, Len(s) - 1)) ELSE s

\* Python: s.strip()
Strip(s) == RStrip(LStrip(s))

\* Python: s.split(sep) for a one-character sep
RECURSIVE Split(_, _)
Split(s, sep) ==
    LET k == IndexOf(s, sep, 1)
    IN  IF k = 0 THEN <<s>> ELSE <<Take(s, k - 1)>> \o Split(Drop(s, k), sep)

\* Python: sep.join(parts)
RECURSIVE Join(_, _)
Join(parts, sep) ==
    IF parts = <<>> THEN ""
    ELSE IF Len(parts) = 1 THEN parts[1]
    ELSE parts[1] \o sep \o Join(Tail(parts), sep)

(***************************************************************************)
(* parse_keys and extract_db_type.                                         *)
(***************************************************************************)
PathPrefix == "sqlcipher db path: '"
KeyPrefix == "PRAGMA key = \""

\* re.match(prefix + "([^q]+)" + q, line): the text captured by the group, or
\* "" when the line does not match (the group itself is never empty)
MatchQuoted(line, prefix, q) ==
    IF ~StartsWith(line, prefix) THEN ""
    ELSE LET rest == Drop(line, Len(prefix))
             k == IndexOf(rest, q, 1)
         IN  IF k <= 1 THEN "" ELSE Take(rest, k - 1)

path_match(line) == MatchQuoted(line, PathPrefix, "'")
key_match(line) == MatchQuoted(line, KeyPrefix, "\"")

\* for i in range(len(parts) - 2, -1, -1): first non-empty part, from the
\* second last towards the first (i is the 1-based index here)
RECURSIVE db_type_scan(_, _)
db_type_scan(parts, i) ==
    IF i < 1 THEN "unknown"
    ELSE IF parts[i] /= "" THEN parts[i] ELSE db_type_scan(parts, i - 1)

extract_db_type(filepath) ==
    LET parts == Split(filepath, "/") IN db_type_scan(parts, Len(parts) - 1)

KeyInfo(path, key) ==
    [path |-> path, key |-> key, cipher_compatibility |-> 3,
     type |-> extract_db_type(path)]

\* the loop of parse_keys over the lines from index i on, with the loop's
\* current_path and the list built so far
RECURSIVE parse_loop(_, _, _, _)
parse_loop(lines, i, current_path, keys) ==
    IF i > Len(lines) THEN keys
    ELSE LET line == Strip(lines[i])
         IN  IF line = "" THEN parse_loop(lines, i + 1, current_path, keys)
             ELSE IF path_match(line) /= ""
                  THEN parse_loop(lines, i + 1, path_match(line), keys)
             ELSE IF key_match(line) /= "" /\ current_path /= ""
                  THEN parse_loop(lines, i + 1, "",
                                  Append(keys, KeyInfo(current_path, key_match(line))))
             ELSE parse_loop(lines, i + 1, current_path, keys)

\* mutation of parse_keys: current_path is not cleared after a pair is emitted
RECURSIVE parse_loop_keep(_, _, _, _)
parse_loop_keep(lines, i, current_path, keys) ==
    IF i > Len(lines) THEN keys
    ELSE LET line == Strip(lines[i])
         IN  IF line = "" THEN parse_loop_keep(lines, i + 1, current_path, keys)
             ELSE IF path_match(line) /= ""
                  THEN parse_loop_keep(lines, i + 1, path_match(line), keys)
             ELSE IF key_match(line) /= "" /\ current_path /= ""
                  THEN parse_loop_keep(lines, i + 1, current_path,
                                  Append(keys, KeyInfo(current_path, key_match(line))))
             ELSE parse_loop_keep(lines, i + 1, current_path, keys)

parse_keys_keep_path(content) == parse_loop_keep(Split(content, "\n"), 1, "", <<>>)

parse_keys(content) == parse_loop(Split(content, "\n"), 1, "", <<>>)

(***************************************************************************)
(* _find_column and validate_chat_table.                                   *)
(***************************************************************************)
SeqToSet(s) == { s[i] : i \in DOMAIN s }

MapLower(cols) == [i \in DOMAIN cols |-> Lower(cols[i])]

\* for column in columns: if candidate.lower() in column.lower(): return column
\* ("" stands for "the inner loop ended without a return")
RECURSIVE find_in_columns(_, _, _)
find_in_columns(columns, candidate, j) ==
    IF j > Len(columns) THEN ""
    ELSE IF Contains(Lower(candidate), Lower(columns[j])) THEN columns[j]
    ELSE find_in_columns(columns, candidate, j + 1)

\* for candidate in candidates: ...; return None   ("" stands for None)
RECURSIVE find_column_loop(_, _, _)
find_column_loop(columns, candidates, k) ==
    IF k > Len(candidates) THEN ""
    ELSE IF find_in_columns(columns, candidates[k], 1) /= ""
         THEN find_in_columns(columns, candidates[k], 1)
    ELSE find_column_loop(columns, candidates, k + 1)

\* mutation of _find_column: the loops are nested the other way round, so the
\* first column matching any candidate wins
RECURSIVE find_column_by_column(_, _, _)
find_column_by_column(columns, candidates, j) ==
    IF j > Len(columns) THEN ""
    ELSE IF \E k \in DOMAIN candidates :
                Contains(Lower(candidates[k]), Lower(columns[j]))
         THEN columns[j]
    ELSE find_column_by_column(columns, candidates, j + 1)

find_column_columns_first(columns, candidates) ==
    find_column_by_column(columns, candidates, 1)

find_column(columns, candidates) == find_column_loop(columns, candidates, 1)

MsgIdNames == <<"meslocalid", "messvrid", "localid">>
ContentKeywords == <<"content", "message", "msg">>

\* has_msg_id: any(col in columns for col in [...]) -- list membership
has_msg_id(columns) == \E k \in DOMAIN MsgIdNames : MsgIdNames[k] \in SeqToSet(columns)

\* has_time: any('time' in col for col in columns)
has_time(columns) == \E j \in DOMAIN columns : Contains("time", columns[j])

\* has_content: any(keyword in col for col in columns for keyword in [...])
has_content(columns) ==
    \E j \in DOMAIN columns : \E k \in DOMAIN ContentKeywords :
        Contains(ContentKeywords[k], columns[j])

\* mutation of validate_chat_table: the message-id test is a substring test
\* like the other two
validate_ids_by_substring(table_columns, row_count, failed) ==
    LET columns == MapLower(table_columns)
    IN  IF failed THEN <<FALSE, <<>>>>
        ELSE IF row_count = 0 THEN <<FALSE, columns>>
        ELSE << (\E j \in DOMAIN columns : \E k \in DOMAIN MsgIdNames :
                    Contains(MsgIdNames[k], columns[j]))
                \/ has_time(columns) \/ has_content(columns), columns >>

\* validate_chat_table on a table with the given column names (as stored) and
\* row count; failed: a metadata or count query raised. Result: (is_valid, columns)
validate_chat_table(table_columns, row_count, failed) ==
    LET columns == MapLower(table_columns)
    IN  IF failed THEN <<FALSE, <<>>>>
        ELSE IF row_count = 0 THEN <<FALSE, columns>>
        ELSE <<has_msg_id(columns) \/ has_time(columns) \/ has_content(columns), columns>>

(***************************************************************************)
(* find_chat_tables.                                                       *)
(***************************************************************************)
\* the printable ASCII characters in code order, from the space (code 32) on;
\* the place of the grave accent (code 96), which a TLA+ string cannot hold, is
\* taken by a tab
Ascii ==
    " !\"#$%&'()*+,-./0123456789:;<=>?@ABCDEFGHIJKLMNOPQRSTUVWXYZ[\\]^_\tabcdefghijklmnopqrstuvwxyz{|}~"

\* ord(c) - 31 for a printable ASCII character c, 0 for any other
Ord(c) == IndexOf(Ascii, c, 1)

\* Python: a < b on str (code point order, a proper prefix first)
RECURSIVE StrLess(_, _)
StrLess(a, b) ==
    IF b = "" THEN FALSE
    ELSE IF a = "" THEN TRUE
    ELSE IF CharAt(a, 1) = CharAt(b, 1) THEN StrLess(Drop(a, 1), Drop(b, 1))
    ELSE Ord(CharAt(a, 1)) < Ord(CharAt(b, 1))

AllDigits(s) == \A i \in 1..Len(s) : IndexOf(Digits, CharAt(s, i), 1) /= 0

\* the condition of the if in find_chat_tables
is_chat_name(table) ==
    LET name_lower == Lower(table)
    IN  \/ StartsWith(name_lower, "chat_")
        \/ name_lower = "chat"
        \/ (StartsWith(name_lower, "chat") /\ Len(name_lower) > Len("chat")
              /\ AllDigits(Drop(name_lower, Len("chat"))))
        \/ StartsWith(name_lower, "chatroom_")
        \/ StartsWith(name_lower, "message_")
        \/ (Contains("chat", name_lower) /\ Contains("room", name_lower))

\* key=lambda x: (not x.lower().startswith('chat_'), x.lower()); a sorts
\* strictly before b
SortKeyLess(a, b) ==
    LET pa == ~StartsWith(Lower(a), "chat_")
        pb == ~StartsWith(Lower(b), "chat_")
    IN  IF pa /= pb THEN pb ELSE StrLess(Lower(a), Lower(b))

\* list.sort is stable: x goes after every element that does not sort after it
RECURSIVE InsertSorted(_, _)
InsertSorted(sorted, x) ==
    IF sorted = <<>> THEN <<x>>
    ELSE IF SortKeyLess(x, Head(sorted)) THEN <<x>> \o sorted
    ELSE <<Head(sorted)>> \o InsertSorted(Tail(sorted), x)

RECURSIVE SortTables(_, _)
SortTables(names, i) ==
    IF i = 0 THEN <<>> ELSE InsertSorted(SortTables(names, i - 1), names[i])

\* mutation of find_chat_tables: the matching tables are not sorted
find_chat_tables_unsorted(tables) == SelectSeq(tables, is_chat_name)

find_chat_tables(tables) ==
    LET chat_tables == SelectSeq(tables, is_chat_name)
    IN  SortTables(chat_tables, Len(chat_tables))

(***************************************************************************)
(* Values of SQLite cells and of record fields. An integer n is held as    *)
(* hi * NumBase + lo, since timestamps in milliseconds exceed 2^31.        *)
(***************************************************************************)
NumBase == 1000 * 1000

V(t, hi, lo, s, b) == [t |-> t, hi |-> hi, lo |-> lo, s |-> s, b |-> b]
NullV == V("null", 0, 0, "", <<>>)
IntV(hi, lo) == V("int", hi, lo, "", <<>>)
StrV(s) == V("str", 0, 0, s, <<>>)
BytesV(b) == V("bytes", 0, 0, "", b)

HexDigits == "0123456789abcdef"

\* bytes.hex()
RECURSIVE Hex(_)
Hex(b) ==
    IF b = <<>> THEN ""
    ELSE CharAt(HexDigits, (Head(b) \div 16) + 1) \o CharAt(HexDigits, (Head(b) % 16) + 1)
         \o Hex(Tail(b))

\* bytes.decode('utf-8') of printable ASCII bytes
RECURSIVE AsciiText(_)
AsciiText(b) ==
    IF b = <<>> THEN "" ELSE CharAt(Ascii, Head(b) - 31) \o AsciiText(Tail(b))

\* The byte strings of the modelled databases hold printable ASCII bytes and the
\* byte 255, which occurs in no UTF-8 text: decode raises UnicodeDecodeError
\* exactly when a byte is not ASCII.
Utf8Valid(b) == \A i \in DOMAIN b : b[i] >= 32 /\ b[i] < 127

\* if isinstance(value, bytes): try decode('utf-8') except: value.hex()
decode_field(value) ==
    IF value.t /= "bytes" THEN value
    ELSE IF Utf8Valid(value.b) THEN StrV(AsciiText(value.b))
    ELSE StrV(Hex(value.b))

\* Python truth value of a cell value
Truthy(value) ==
    CASE value.t = "null" -> FALSE
      [] value.t = "int" -> value.hi /= 0 \/ value.lo /= 0
      [] value.t = "str" -> value.s /= ""
      [] value.t = "bytes" -> value.b /= <<>>
      [] OTHER -> TRUE

(***************************************************************************)
(* _convert_timestamp. The ISO-8601 text of an instant is held as the      *)
(* instant it denotes, in milliseconds since the epoch (tag "iso").        *)
(***************************************************************************)
\* n > bound for n = hi * NumBase + lo and bound = bhi * NumBase
GreaterThan(v, bhi) == v.hi > bhi \/ (v.hi = bhi /\ v.lo > 0)

\* datetime.fromtimestamp raises beyond 9999-12-31T23:59:59 (253402300799 s)
SecondsInRange(hi, lo) == hi < 253402 \/ (hi = 253402 /\ lo <= 300799)

\* 1000 * (hi * NumBase + lo) as a pair
TimesThousand(hi, lo) ==
    [hi |-> hi * 1000 + ((lo * 1000) \div NumBase), lo |-> (lo * 1000) % NumBase]

\* (hi * NumBase + lo) / 1000 in whole seconds, as a pair
WholeSeconds(hi, lo) ==
    [hi |-> hi \div 1000, lo |-> ((hi % 1000) * NumBase + lo) \div 1000]

IsoV(ms) == V("iso", ms.hi, ms.lo, "", <<>>)

\* the number written by the two digits of s at positions i and i + 1
Num2(s, i) ==
    (IndexOf(Digits, CharAt(s, i), 1) - 1) * 10 + (IndexOf(Digits, CharAt(s, i + 1), 1) - 1)

DaysInMonth(year, month) ==
    IF month = 2
    THEN IF year % 4 = 0 /\ (year % 100 /= 0 \/ year % 400 = 0) THEN 29 ELSE 28
    ELSE IF month \in {4, 6, 9, 11} THEN 30 ELSE 31

\* the strings datetime.fromisoformat accepts, among the strings of 19 characters
\* and the strings that are no date at all: YYYY-MM-DD, a separator character,
\* HH:MM:SS, naming a date and a time of day that exist
IsIsoText(s) ==
    /\ Len(s) = 19
    /\ \A i \in {1, 2, 3, 4, 6, 7, 9, 10, 12, 13, 15, 16, 18, 19} :
          IndexOf(Digits, CharAt(s, i), 1) /= 0
    /\ CharAt(s, 5) = "-" /\ CharAt(s, 8) = "-"
    /\ CharAt(s, 14) = ":" /\ CharAt(s, 17) = ":"
    /\ LET year == Num2(s, 1) * 100 + Num2(s, 3)
           month == Num2(s, 6)
           day == Num2(s, 9)
       IN  /\ year >= 1
           /\ month >= 1 /\ month <= 12
           /\ day >= 1 /\ day <= DaysInMonth(year, month)
           /\ Num2(s, 12) <= 23 /\ Num2(s, 15) <= 59 /\ Num2(s, 18) <= 59

\* dt.isoformat() of a parsed string: the separator becomes "T"
IsoNormalize(s) == Take(s, 10) \o "T" \o Drop(s, 11)

\* mutation of _convert_timestamp: the two thresholds are inclusive (>= 1e12 is
\* a millisecond epoch, >= 1e9 a second epoch)
convert_timestamp_inclusive(timestamp) ==
    IF timestamp.t = "int"
    THEN IF GreaterThan(timestamp, 1000000) \/ (timestamp.hi = 1000000 /\ timestamp.lo = 0)
         THEN LET sec == WholeSeconds(timestamp.hi, timestamp.lo)
              IN  IF SecondsInRange(sec.hi, sec.lo)
                  THEN IsoV([hi |-> timestamp.hi, lo |-> timestamp.lo])
                  ELSE NullV
         ELSE IF GreaterThan(timestamp, 1000) \/ (timestamp.hi = 1000 /\ timestamp.lo = 0)
         THEN IF SecondsInRange(timestamp.hi, timestamp.lo)
              THEN IsoV(TimesThousand(timestamp.hi, timestamp.lo))
              ELSE NullV
         ELSE NullV
    ELSE IF timestamp.t = "str"
    THEN IF IsIsoText(timestamp.s) THEN StrV(IsoNormalize(timestamp.s)) ELSE timestamp
    ELSE NullV

convert_timestamp(timestamp) ==
    IF timestamp.t = "int"
    THEN IF GreaterThan(timestamp, 1000000)
         THEN LET sec == WholeSeconds(timestamp.hi, timestamp.lo)
              IN  IF SecondsInRange(sec.hi, sec.lo)
                  THEN IsoV([hi |-> timestamp.hi, lo |-> timestamp.lo])
                  ELSE NullV
         ELSE IF GreaterThan(timestamp, 1000)
         THEN IF SecondsInRange(timestamp.hi, timestamp.lo)
              THEN IsoV(TimesThousand(timestamp.hi, timestamp.lo))
              ELSE NullV
         ELSE NullV
    ELSE IF timestamp.t = "str"
    THEN IF IsIsoText(timestamp.s) THEN StrV(IsoNormalize(timestamp.s)) ELSE timestamp
    ELSE NullV

(***************************************************************************)
(* extract_chat_data: column roles, the select list, one record per row.   *)
(***************************************************************************)
SenderCandidates == <<"meslocalid", "messvrid", "localid">>
TimeCandidates == <<"msgcreatetime", "createtime", "timestamp", "time">>
ContentCandidates == <<"msgcontent", "content", "message", "msg">>
MsgidCandidates == <<"meslocalid", "messvrid", "msgid", "id", "localid">>
TypeCandidates == <<"messagetype", "msgtype", "type">>

\* field_mapping; "" stands for a role with no entry (field_mapping.get -> None)
field_mapping_of(columns) ==
    [sender |-> find_column(columns, SenderCandidates),
     time |-> find_column(columns, TimeCandidates),
     content |-> find_column(columns, ContentCandidates),
     msgid |-> find_column(columns, MsgidCandidates),
     type |-> find_column(columns, TypeCandidates)]

\* for col in columns: if col not in select_fields and col not in ['rowid']
RECURSIVE add_other_columns(_, _, _)
add_other_columns(select_fields, columns, j) ==
    IF j > Len(columns) THEN select_fields
    ELSE IF columns[j] \notin SeqToSet(select_fields) /\ columns[j] /= "rowid"
         THEN add_other_columns(Append(select_fields, columns[j]), columns, j + 1)
    ELSE add_other_columns(select_fields, columns, j + 1)

\* select_fields: each resolved role column is appended, in role order, whether
\* or not it is in the list already; then the remaining columns
select_fields_of(columns) ==
    LET fm == field_mapping_of(columns)
        roles == <<fm.sender, fm.time, fm.content, fm.msgid, fm.type>>
    IN  add_other_columns(SelectSeq(roles, LAMBDA c : c /= ""), columns, 1)

\* message[k] = v
Put(message, k, v) ==
    [x \in (DOMAIN message) \cup {k} |-> IF x = k THEN v ELSE message[x]]

\* the body of "for i, field in enumerate(select_fields)" for one field
map_field(message, fm, field, raw) ==
    LET value == decode_field(raw)
    IN  IF field = fm.time /\ Truthy(value)
        THEN Put(Put(message, "timestamp", convert_timestamp(value)),
                 "timestamp_raw", value)
        ELSE IF field = fm.sender THEN Put(message, "sender", value)
        ELSE IF field = fm.content THEN Put(message, "content", value)
        ELSE IF field = fm.msgid THEN Put(message, "message_id", value)
        ELSE IF field = fm.type THEN Put(message, "message_type", value)
        ELSE Put(message, field, value)

\* mutation of the field loop: the message-id role is tested before the sender role
map_field_msgid_first(message, fm, field, raw) ==
    LET value == decode_field(raw)
    IN  IF field = fm.time /\ Truthy(value)
        THEN Put(Put(message, "timestamp", convert_timestamp(value)),
                 "timestamp_raw", value)
        ELSE IF field = fm.msgid THEN Put(message, "message_id", value)
        ELSE IF field = fm.sender THEN Put(message, "sender", value)
        ELSE IF field = fm.content THEN Put(message, "content", value)
        ELSE IF field = fm.type THEN Put(message, "message_type", value)
        ELSE Put(message, field, value)

RECURSIVE map_fields(_, _, _, _, _)
map_fields(message, fm, select_fields, row, i) ==
    IF i > Len(select_fields) THEN message
    ELSE map_fields(map_field(message, fm, select_fields[i],
                              IF i <= Len(row) THEN row[i] ELSE NullV),
                    fm, select_fields, row, i + 1)

\* the record built for one fetched row at time now
build_message(db_info, table_name, fm, select_fields, row, now) ==
    map_fields([k \in {"database_path", "database_type", "table_name", "extracted_at"} |->
                   CASE k = "database_path" -> StrV(db_info.path)
                     [] k = "database_type" -> StrV(db_info.type)
                     [] k = "table_name" -> StrV(table_name)
                     [] OTHER -> V("time", 0, now, "", <<>>)],
               fm, select_fields, row, 1)

\* SELECT select_fields FROM table: the cells of one stored row in the order of
\* the select list (SQLite matches column names without regard to case)
select_row(table, select_fields, r) ==
    [i \in DOMAIN select_fields |->
        table.rows[r][CHOOSE j \in DOMAIN table.columns :
                          Lower(table.columns[j]) = Lower(select_fields[i])]]

\* the records of the rows first..last of a table, the clock advancing by one
\* per row
RECURSIVE build_batch(_, _, _, _, _, _, _)
build_batch(db_info, table, fm, select_fields, first, last, now) ==
    IF first > last THEN <<>>
    ELSE <<build_message(db_info, table.name, fm, select_fields,
                         select_row(table, select_fields, first), now)>>
         \o build_batch(db_info, table, fm, select_fields, first + 1, last, now + 1)

\* mutation of key_formats: the hex-prefixed key as given, the key stripped of
\* its x'...' wrapping, the quoted key, the bare hex
key_formats_stripped_second(original_key) ==
    LET hex_key == IF StartsWith(original_key, "x'") /\ EndsWith(original_key, "'")
                   THEN SubSeq(original_key, 3, Len(original_key) - 1)
                   ELSE original_key
    IN  <<original_key, hex_key, "\"" \o original_key \o "\"", hex_key>>

\* key_formats of connect_database
key_formats_of(original_key) ==
    IF StartsWith(original_key, "x'") /\ EndsWith(original_key, "'")
    THEN LET hex_key == SubSeq(original_key, 3, Len(original_key) - 1)
         IN  <<"x'" \o hex_key \o "'", original_key,
               "\"" \o original_key \o "\"", hex_key>>
    ELSE <<original_key, "\"" \o original_key \o "\"", "x'" \o original_key \o "'">>

(***************************************************************************)
(* The databases of the modelled environment.                              *)
(***************************************************************************)
Table(name, columns, rows) == [name |-> name, columns |-> columns, rows |-> rows]

MsgDb0 ==
    [path |-> "/w/Message/msg_0.db", key |-> "x'ab'",
     tables |-> <<
        Table("message_5", <<"msgId", "talkerLocalId", "Status">>,
              << <<IntV(0, 7), BytesV(<<255, 1>>), IntV(0, 2)>> >>),
        Table("Session", <<"UserName">>, << <<StrV("u")>> >>),
        Table("Chat_100", <<"MesLocalID", "MsgCreateTime", "MsgContent">>,
              << <<IntV(0, 1), IntV(1700, 1), StrV("hi")>>,
                 <<IntV(0, 2), IntV(1700000, 2000), BytesV(<<111, 107>>)>>,
                 <<IntV(0, 3), IntV(0, 0), StrV("")>> >>) >>]

MsgDb1 ==
    [path |-> "/w/Message/msg_1.db", key |-> "k2",
     tables |-> <<
        Table("chat", <<"MesLocalID">>, <<>>),
        Table("Chat_7", <<"MesSvrID", "Type">>,
              << <<IntV(0, 9), IntV(0, 1)>> >>) >>]

GroupDb ==
    [path |-> "/w/Group/group.db", key |-> "x'cd'",
     tables |-> <<
        Table("GroupChatRoom", <<"UserName", "CreateTime">>,
              << <<StrV("g"), StrV("2023-11-14 22:13:20")>> >>) >>]

ContactDb ==
    [path |-> "/w/Contact/contact.db", key |-> "k4",
     tables |-> << Table("Friend", <<"UserName">>, << <<StrV("f")>> >>) >>]

Catalog == {MsgDb0, MsgDb1, GroupDb, ContactDb}

DbAt(path) == CHOOSE d \in Catalog : d.path = path

TableOf(path, name) ==
    LET ts == DbAt(path).tables IN ts[CHOOSE i \in DOMAIN ts : ts[i].name = name]

TableNames(path) == LET ts == DbAt(path).tables IN [i \in DOMAIN ts |-> ts[i].name]

(***************************************************************************)
(* State.                                                                  *)
(***************************************************************************)
VARIABLES
    fn,             \* which pure function a function specification applies
    fn_in,          \* its drawn input
    fn_out,         \* its result, once applied
    fn_done,        \* whether it was applied
    mode,           \* run mode chosen by the command line (main)
    keys_file,      \* the key resource: [state, content]
    missing_db,     \* a database path for which os.path.exists is false, or ""
    pc,             \* position of the run
    databases,      \* self.databases
    chat_data,      \* self.chat_data
    order,          \* the list the database loop iterates over
    db_idx,         \* position in order (1-based)
    attempt,        \* connect_database: index into key_formats (1-based)
    cd_conn,        \* connect_database: its local conn: unbound, open, closed
    conn,           \* the orchestrator's conn: none, open, closed
    n_open,         \* number of connections currently open
    chat_tables,    \* chat_tables of the database being processed
    tbl_idx,        \* position in chat_tables (1-based)
    cur_columns,    \* columns returned by validate_chat_table
    cur_select_fields, \* extract_chat_data: select_fields
    fmap,           \* extract_chat_data: field_mapping
    offset,         \* extract_chat_data: offset
    cur_messages,   \* extract_chat_data: messages
    clock,          \* datetime.now(), advancing with every record built
    table_info,     \* table_info of the CSV mode
    primary_writes, \* times the primary artifact was opened for writing
    csv_writes,     \* times the CSV artifact was opened for writing
    exit_status,    \* process exit status, -1 while running
    log             \* what the run reported about its outcome, in order

fnVars == <<fn, fn_in, fn_out, fn_done>>
envVars == <<mode, keys_file, missing_db>>
connVars == <<attempt, cd_conn, conn, n_open>>
tblVars == <<chat_tables, tbl_idx>>
exVars == <<cur_columns, cur_select_fields, fmap, offset, cur_messages>>
outVars == <<table_info, primary_writes, csv_writes>>
runVars == <<pc, databases, chat_data, order, db_idx, clock, exit_status, log>>
mainVars == <<envVars, connVars, tblVars, exVars, outVars, runVars>>

vars == <<fnVars, mainVars>>

\* the state of a run before main starts
RunFresh ==
    /\ pc = "main"
    /\ databases = <<>>
    /\ chat_data = <<>>
    /\ order = <<>>
    /\ db_idx = 0
    /\ attempt = 0
    /\ cd_conn = "unbound"
    /\ conn = "none"
    /\ n_open = 0
    /\ chat_tables = <<>>
    /\ tbl_idx = 0
    /\ cur_columns = <<>>
    /\ cur_select_fields = <<>>
    /\ fmap = field_mapping_of(<<>>)
    /\ offset = 0
    /\ cur_messages = <<>>
    /\ clock = 0
    /\ table_info = <<>>
    /\ primary_writes = 0
    /\ csv_writes = 0
    /\ exit_status = -1
    /\ log = <<>>

\* the function specifications run no program: the run stays as constructed
MainIdle ==
    /\ mode = "none"
    /\ keys_file = [state |-> "missing", content |-> ""]
    /\ missing_db = ""
    /\ RunFresh

FnIdle ==
    /\ fn = "none"
    /\ fn_in = <<>>
    /\ fn_out = <<>>
    /\ fn_done = FALSE

(***************************************************************************)
(* Specification of parse_keys: the text is drawn from bounded sets of     *)
(* lines, then parsed.                                                     *)
(***************************************************************************)
ParseLines ==
    { "",
      "  ",
      "sqlcipher db path: '/w/Message/a.db'",
      " sqlcipher db path: '/w/Contact/b.db' ",
      "PRAGMA key = \"x'ab'\"",
      "PRAGMA key = \"k2\";",
      "-- note",
      "sqlcipher db path: ''" }

SeqsUpTo(S, n) == UNION { [1..k -> S] : k \in 0..n }

ParseInit ==
    /\ fn = "parse_keys"
    /\ fn_in \in { Join(ls, "\n") : ls \in SeqsUpTo(ParseLines, MaxLines) }
    /\ fn_out = <<>>
    /\ fn_done = FALSE
    /\ MainIdle

ParseApply ==
    /\ fn = "parse_keys"
    /\ ~fn_done
    /\ fn_out' = parse_keys(fn_in)
    /\ fn_done' = TRUE
    /\ UNCHANGED <<fn, fn_in, mainVars>>

ParseNext == ParseApply

SpecParse == ParseInit /\ [][ParseNext]_vars

(***************************************************************************)
(* C9 (as amended). parse_keys emits one descriptor for each key line whose *)
(* nearest preceding path-or-key line is a path line, pairing that path    *)
(* with that key: blank lines and lines that are neither a path nor a key  *)
(* declaration in between are ignored. An unmatched path line and a key    *)
(* line with no unpaired path before it contribute nothing, and the        *)
(* descriptors are in input order.                                         *)
(***************************************************************************)
IsPathLine(l) == path_match(Strip(l)) /= ""
IsKeyLine(l) == ~IsPathLine(l) /\ key_match(Strip(l)) /= ""
IsBlankLine(l) == Strip(l) = ""

\* the path line that key line j is paired with (0: none), when the lines in
\* between may be any line that is neither a path nor a key line
PartnerLoose(ls, j) ==
    LET c == { i \in 1..(j - 1) :
                 /\ IsPathLine(ls[i])
                 /\ \A m \in (i + 1)..(j - 1) : ~IsPathLine(ls[m]) /\ ~IsKeyLine(ls[m]) }
    IN  IF IsKeyLine(ls[j]) /\ c /= {} THEN CHOOSE i \in c : TRUE ELSE 0

\* the same when only blank lines may stand in between
PartnerStrict(ls, j) ==
    LET c == { i \in 1..(j - 1) :
                 /\ IsPathLine(ls[i])
                 /\ \A m \in (i + 1)..(j - 1) : IsBlankLine(ls[m]) }
    IN  IF IsKeyLine(ls[j]) /\ c /= {} THEN CHOOSE i \in c : TRUE ELSE 0

RECURSIVE PairsLoose(_, _)
PairsLoose(ls, j) ==
    IF j > Len(ls) THEN <<>>
    ELSE (IF PartnerLoose(ls, j) = 0 THEN <<>>
          ELSE << KeyInfo(path_match(Strip(ls[PartnerLoose(ls, j)])),
                          key_match(Strip(ls[j]))) >>) \o PairsLoose(ls, j + 1)

RECURSIVE PairsStrict(_, _)
PairsStrict(ls, j) ==
    IF j > Len(ls) THEN <<>>
    ELSE (IF PartnerStrict(ls, j) = 0 THEN <<>>
          ELSE << KeyInfo(path_match(Strip(ls[PartnerStrict(ls, j)])),
                          key_match(Strip(ls[j]))) >>) \o PairsStrict(ls, j + 1)

ParsedLines == Split(fn_in, "\n")

\* C9, amended: the result is exactly the loose pairs, in input order
C9_ParsePairsIgnoringOtherLines ==
    (fn = "parse_keys" /\ fn_done) => fn_out = PairsLoose(ParsedLines, 1)

\* C9 witness: a parsed text with a paired key, a path line that got no key and
\* a key line that got no path
C9_Witness ==
    /\ fn = "parse_keys" /\ fn_done
    /\ Len(fn_out) >= 1
    /\ \E i \in DOMAIN ParsedLines :
          /\ IsPathLine(ParsedLines[i])
          /\ \A j \in DOMAIN ParsedLines : PartnerLoose(ParsedLines, j) /= i
    /\ \E j \in DOMAIN ParsedLines :
          IsKeyLine(ParsedLines[j]) /\ PartnerLoose(ParsedLines, j) = 0

\* C9 as stated: a descriptor exactly for each path line followed, ignoring only
\* blank lines, by a key line
C9_Original_OnlyBlankLinesIgnored ==
    (fn = "parse_keys" /\ fn_done) => fn_out = PairsStrict(ParsedLines, 1)

(***************************************************************************)
(* Specification of _find_column: a column list and a candidate list are   *)
(* drawn, then resolved.                                                   *)
(***************************************************************************)
ColPool == {"MesLocalID", "talkerLocalId", "CreateTime", "MsgContent", "UserName"}
FragPool == {"meslocalid", "localid", "id", "time", "msg"}

FindInit ==
    /\ fn = "find_column"
    /\ fn_in \in [columns : SeqsUpTo(ColPool, MaxCols),
                  candidates : SeqsUpTo(FragPool, MaxCands)]
    /\ fn_out = ""
    /\ fn_done = FALSE
    /\ MainIdle

FindApply ==
    /\ fn = "find_column"
    /\ ~fn_done
    /\ fn_out' = find_column(fn_in.columns, fn_in.candidates)
    /\ fn_done' = TRUE
    /\ UNCHANGED <<fn, fn_in, mainVars>>

FindNext == FindApply

SpecFind == FindInit /\ [][FindNext]_vars

(***************************************************************************)
(* C10. _find_column returns the first column, in column order, whose      *)
(* lowercased name contains the earliest candidate, in candidate order,    *)
(* that is contained in any column; it returns no column when no candidate *)
(* is contained in any column. (That a second call with the same lists     *)
(* returns the same result is true of any function of its arguments.)      *)
(***************************************************************************)
FragHits(columns, candidates) ==
    { k \in DOMAIN candidates :
        \E j \in DOMAIN columns : Contains(candidates[k], Lower(columns[j])) }

Least(S) == CHOOSE x \in S : \A y \in S : x <= y

C10_FindColumnEarliestFragmentFirstColumn ==
    (fn = "find_column" /\ fn_done) =>
        LET hits == FragHits(fn_in.columns, fn_in.candidates)
        IN  IF hits = {} THEN fn_out = ""
            ELSE LET k == Least(hits)
                     j == Least({ i \in DOMAIN fn_in.columns :
                                    Contains(fn_in.candidates[k], Lower(fn_in.columns[i])) })
                 IN  fn_out = fn_in.columns[j]

\* C10 witness: the second candidate decided, and the column returned stands
\* after a column that no candidate matches
C10_Witness ==
    /\ fn = "find_column" /\ fn_done
    /\ fn_out /= ""
    /\ FragHits(fn_in.columns, fn_in.candidates) = {2}
    /\ fn_in.columns[1] /= fn_out

(***************************************************************************)
(* Specification of validate_chat_table: the column names, the row count   *)
(* and whether a metadata query raises are drawn, then validated.          *)
(***************************************************************************)
ValidateInit ==
    /\ fn = "validate_chat_table"
    /\ fn_in \in [columns : SeqsUpTo(ColPool, MaxCols),
                  row_count : 0..MaxRows,
                  failed : BOOLEAN]
    /\ fn_out = <<>>
    /\ fn_done = FALSE
    /\ MainIdle

ValidateApply ==
    /\ fn = "validate_chat_table"
    /\ ~fn_done
    /\ fn_out' = validate_chat_table(fn_in.columns, fn_in.row_count, fn_in.failed)
    /\ fn_done' = TRUE
    /\ UNCHANGED <<fn, fn_in, mainVars>>

ValidateNext == ValidateApply

SpecValidate == ValidateInit /\ [][ValidateNext]_vars

(***************************************************************************)
(* C8 (as amended). When the table's metadata and row count can be read,   *)
(* validate_chat_table returns invalid for every table with zero rows, and *)
(* for a table with at least one row it returns valid if and only if some  *)
(* lowercased column name EQUALS meslocalid, messvrid or localid, or       *)
(* contains time, or contains content, message or msg.                     *)
(***************************************************************************)
NameEqualsId(c) == Lower(c) \in {"meslocalid", "messvrid", "localid"}
NameContainsId(c) ==
    \E f \in {"meslocalid", "messvrid", "localid"} : Contains(f, Lower(c))
NameContainsTime(c) == Contains("time", Lower(c))
NameContainsContent(c) ==
    \E f \in {"content", "message", "msg"} : Contains(f, Lower(c))

C8_ValidateExactIdOrTimeOrContent ==
    (fn = "validate_chat_table" /\ fn_done /\ ~fn_in.failed) =>
        /\ fn_in.row_count = 0 => fn_out[1] = FALSE
        /\ fn_in.row_count > 0 =>
             (fn_out[1] <=> \E c \in SeqToSet(fn_in.columns) :
                 NameEqualsId(c) \/ NameContainsTime(c) \/ NameContainsContent(c))

\* C8 witness: a table with rows that is valid by its message-id column alone
C8_Witness ==
    /\ fn = "validate_chat_table" /\ fn_done /\ ~fn_in.failed
    /\ fn_in.row_count > 0
    /\ fn_out[1] = TRUE
    /\ \A c \in SeqToSet(fn_in.columns) : ~NameContainsTime(c) /\ ~NameContainsContent(c)

\* C8 as stated: valid iff some column name CONTAINS one of the id fragments, or
\* contains time, or contains content, message or msg
C8_Original_ValidateSubstringId ==
    (fn = "validate_chat_table" /\ fn_done /\ ~fn_in.failed) =>
        /\ fn_in.row_count = 0 => fn_out[1] = FALSE
        /\ fn_in.row_count > 0 =>
             (fn_out[1] <=> \E c \in SeqToSet(fn_in.columns) :
                 NameContainsId(c) \/ NameContainsTime(c) \/ NameContainsContent(c))

(***************************************************************************)
(* The run: main, load_keys, run, extract_all_chats, connect_database,     *)
(* and the table loop with validate_chat_table and extract_chat_data.      *)
(***************************************************************************)
\* rows fetched per query; the source fetches 1000 (batch_size, line 350), the
\* model fetches fewer so that a table of a few rows spans several batches
batch_size == 2

Modes == {"full", "test_info", "show_tables", "csv_tables"}
DbPaths == { d.path : d \in Catalog }

LogEntry(level, msg, arg) == [level |-> level, msg |-> msg, arg |-> arg]

\* the key-descriptor text naming the given databases, in order
KeysText(paths) ==
    Join([i \in 1..(2 * Len(paths)) |->
            IF i % 2 = 1 THEN PathPrefix \o paths[(i + 1) \div 2] \o "'"
            ELSE KeyPrefix \o DbAt(paths[i \div 2]).key \o "\""], "\n")

\* the lists of at most n different elements of S
DistinctSeqs(S, n) ==
    { q \in SeqsUpTo(S, n) : \A i, j \in DOMAIN q : i /= j => q[i] /= q[j] }

Init ==
    /\ FnIdle
    /\ mode \in Modes
    /\ keys_file \in
          {[state |-> "missing", content |-> ""], [state |-> "unreadable", content |-> ""]}
          \cup { [state |-> "ok", content |-> KeysText(ps)] : ps \in DistinctSeqs(DbPaths, MaxDbs) }
    /\ missing_db \in {"", GroupDb.path}
    /\ missing_db /= "" => Contains(missing_db, keys_file.content)
    /\ RunFresh

CurDb == order[db_idx]
CurTableName == chat_tables[tbl_idx]
CurTable == TableOf(CurDb.path, CurTableName)

\* the process ends with the given status after logging the given entries
Exit(status, entries) ==
    /\ pc' = "exit"
    /\ exit_status' = status
    /\ log' = log \o entries

\* what main prints or logs after run returned normally (line 759)
MainSuccess == <<LogEntry("INFO", "extraction finished", "")>>

\* an exception leaving load_keys or run: logged by run (line 546) and by main
\* (line 765) in full mode, uncaught in the other modes; the status is 1 in both
Failure(what) ==
    IF mode = "full"
    THEN <<LogEntry("ERROR", what, ""), LogEntry("ERROR", "extraction failed", "")>>
    ELSE <<LogEntry("ERROR", what, "")>>

\* main, up to the call of load_keys: only the full mode tests that the keys
\* file exists (lines 746-749)
Main_Start ==
    /\ pc = "main"
    /\ IF mode = "full" /\ keys_file.state = "missing"
       THEN Exit(1, <<LogEntry("ERROR", "keys file does not exist", "")>>)
       ELSE pc' = "load_keys" /\ UNCHANGED <<exit_status, log>>
    /\ UNCHANGED <<fnVars, envVars, connVars, tblVars, exVars, outVars,
                   databases, chat_data, order, db_idx, clock>>

DbInfo(key_info) ==
    [type |-> key_info.type, path |-> key_info.path, key |-> key_info.key,
     cipher_compatibility |-> key_info.cipher_compatibility]

\* load_keys: open and read the file, parse it, keep the databases that exist
load_keys ==
    /\ pc = "load_keys"
    /\ IF keys_file.state /= "ok"
       THEN /\ Exit(1, Failure("loading the keys file failed"))
            /\ UNCHANGED databases
       ELSE /\ databases' =
                  LET parsed == parse_keys(keys_file.content)
                      found == SelectSeq(parsed, LAMBDA k : k.path /= missing_db)
                  IN  [i \in DOMAIN found |-> DbInfo(found[i])]
            /\ pc' = "loaded"
            /\ UNCHANGED <<exit_status, log>>
    /\ UNCHANGED <<fnVars, envVars, connVars, tblVars, exVars, outVars,
                   chat_data, order, db_idx, clock>>

\* mutation of the database order: the descriptor order is kept as it is
extract_order_unsorted(dbs) == dbs

\* message_dbs + other_dbs of extract_all_chats
extract_order(dbs) ==
    SelectSeq(dbs, LAMBDA db : db.type = "Message")
        \o SelectSeq(dbs, LAMBDA db : db.type /= "Message")

\* run, after load_keys: no database is an error that returns normally, so main
\* goes on to log success; otherwise extract_all_chats starts
run_check_databases ==
    /\ pc = "loaded" /\ mode = "full"
    /\ IF databases = <<>>
       THEN /\ Exit(0, <<LogEntry("ERROR", "no valid database found", "")>> \o MainSuccess)
            /\ UNCHANGED <<order, db_idx>>
       ELSE /\ order' = extract_order(databases)
            /\ db_idx' = 1
            /\ pc' = "db_loop"
            /\ UNCHANGED <<exit_status, log>>
    /\ UNCHANGED <<fnVars, envVars, connVars, tblVars, exVars, outVars,
                   databases, chat_data, clock>>

\* main, --test-info: prints the descriptors and returns
test_info_print ==
    /\ pc = "loaded" /\ mode = "test_info"
    /\ Exit(0, <<>>)
    /\ UNCHANGED <<fnVars, envVars, connVars, tblVars, exVars, outVars,
                   databases, chat_data, order, db_idx, clock>>

\* main, --show-tables and --csv-tables: the loop over extractor.databases
tables_mode_start ==
    /\ pc = "loaded" /\ mode \in {"show_tables", "csv_tables"}
    /\ order' = databases
    /\ db_idx' = 1
    /\ pc' = "db_loop"
    /\ UNCHANGED <<fnVars, envVars, connVars, tblVars, exVars, outVars,
                   databases, chat_data, clock, exit_status, log>>

\* the database loop takes the next database and calls connect_database
db_begin ==
    /\ pc = "db_loop" /\ db_idx <= Len(order)
    /\ attempt' = 1
    /\ cd_conn' = "unbound"
    /\ conn' = "none"
    /\ pc' = "connect"
    /\ UNCHANGED <<fnVars, envVars, n_open, tblVars, exVars, outVars,
                   databases, chat_data, order, db_idx, clock, exit_status, log>>

\* connect_database, one attempt: sqlite.connect; when it raises, the handler
\* reads conn, which is unbound in the first attempt (UnboundLocalError leaves
\* connect_database) and is the closed connection of the attempt before otherwise
connect_open ==
    /\ pc = "connect" /\ attempt <= Len(key_formats_of(CurDb.key))
    /\ \E connected \in BOOLEAN :
          IF connected
          THEN /\ cd_conn' = "open"
               /\ n_open' = n_open + 1
               /\ pc' = "probe"
               /\ UNCHANGED <<attempt, exit_status, log>>
          ELSE IF cd_conn = "unbound"
          THEN /\ Exit(1, Failure("UnboundLocalError in connect_database"))
               /\ UNCHANGED <<attempt, cd_conn, n_open>>
          ELSE /\ attempt' = attempt + 1
               /\ UNCHANGED <<cd_conn, n_open, pc, exit_status, log>>
    /\ UNCHANGED <<fnVars, envVars, conn, tblVars, exVars, outVars,
                   databases, chat_data, order, db_idx, clock>>

\* mutation of the attempt: a failed attempt leaves its connection open
connect_probe_no_close ==
    /\ pc = "probe"
    /\ \E outcome \in {"ok", "key_error", "probe_error"} :
          IF outcome = "ok"
          THEN /\ conn' = "open"
               /\ pc' = "list_tables"
               /\ UNCHANGED <<attempt, cd_conn, n_open>>
          ELSE /\ attempt' = attempt + 1
               /\ pc' = "connect"
               /\ UNCHANGED <<cd_conn, n_open, conn>>
    /\ UNCHANGED <<fnVars, envVars, tblVars, exVars, outVars,
                   databases, chat_data, order, db_idx, clock, exit_status, log>>

\* connect_database, the rest of the attempt: PRAGMA key, PRAGMA
\* cipher_compatibility and the probe query; success returns the connection,
\* an exception closes it and goes on with the next key format
connect_probe ==
    /\ pc = "probe"
    /\ \E outcome \in {"ok", "key_error", "probe_error"} :
          IF outcome = "ok"
          THEN /\ conn' = "open"
               /\ pc' = "list_tables"
               /\ UNCHANGED <<attempt, cd_conn, n_open>>
          ELSE /\ cd_conn' = "closed"
               /\ n_open' = n_open - 1
               /\ attempt' = attempt + 1
               /\ pc' = "connect"
               /\ UNCHANGED conn
    /\ UNCHANGED <<fnVars, envVars, tblVars, exVars, outVars,
                   databases, chat_data, order, db_idx, clock, exit_status, log>>

\* connect_database after the last key format: returns None, and the loop
\* continues with the next database
connect_exhausted ==
    /\ pc = "connect" /\ attempt > Len(key_formats_of(CurDb.key))
    /\ db_idx' = db_idx + 1
    /\ pc' = "db_loop"
    /\ UNCHANGED <<fnVars, envVars, connVars, tblVars, exVars, outVars,
                   databases, chat_data, order, clock, exit_status, log>>

\* finally: conn.close(), then the loop goes on to the next database
CloseAndNextDb ==
    /\ conn' = "closed"
    /\ n_open' = n_open - 1
    /\ db_idx' = db_idx + 1
    /\ pc' = "db_loop"

\* mutation of the finally block: the next database is taken without closing
NextDbWithoutClose ==
    /\ db_idx' = db_idx + 1
    /\ pc' = "db_loop"
    /\ UNCHANGED <<conn, n_open>>

\* get_table_names (an exception gives []) and find_chat_tables; without chat
\* tables the full mode continues with the next database, --show-tables always
\* does after printing, both through finally
list_tables ==
    /\ pc = "list_tables"
    /\ \E failed \in BOOLEAN :
          LET tables == IF failed THEN <<>> ELSE TableNames(CurDb.path)
              found == find_chat_tables(tables)
          IN  /\ chat_tables' = found
              /\ IF mode = "show_tables" \/ (mode = "full" /\ found = <<>>)
                 THEN CloseAndNextDb /\ UNCHANGED tbl_idx
                 ELSE tbl_idx' = 1 /\ pc' = "table_loop" /\ UNCHANGED <<conn, n_open, db_idx>>
    /\ UNCHANGED <<fnVars, envVars, attempt, cd_conn, exVars, outVars,
                   databases, chat_data, order, clock, exit_status, log>>

\* the table loop: validate_chat_table on the next chat table; an invalid table
\* is skipped; a valid one is extracted (full mode) or recorded (CSV mode)
validate_table ==
    /\ pc = "table_loop" /\ tbl_idx <= Len(chat_tables)
    /\ \E failed \in BOOLEAN :
          LET result == validate_chat_table(CurTable.columns, Len(CurTable.rows), failed)
          IN  IF ~result[1]
              THEN /\ tbl_idx' = tbl_idx + 1
                   /\ UNCHANGED <<pc, cur_columns, table_info>>
              ELSE IF mode = "full"
              THEN /\ cur_columns' = result[2]
                   /\ pc' = "extract"
                   /\ UNCHANGED <<tbl_idx, table_info>>
              ELSE /\ table_info' = Append(table_info,
                          [database_path |-> CurDb.path, table_name |-> CurTableName,
                           columns |-> result[2]])
                   /\ tbl_idx' = tbl_idx + 1
                   /\ UNCHANGED <<pc, cur_columns>>
    /\ UNCHANGED <<fnVars, envVars, connVars, chat_tables, cur_select_fields, fmap,
                   offset, cur_messages, primary_writes, csv_writes,
                   databases, chat_data, order, db_idx, clock, exit_status, log>>

\* the table loop is over: finally closes the connection
tables_done ==
    /\ pc = "table_loop" /\ tbl_idx > Len(chat_tables)
    /\ CloseAndNextDb
    /\ UNCHANGED <<fnVars, envVars, attempt, cd_conn, tblVars, exVars, outVars,
                   databases, chat_data, order, clock, exit_status, log>>

\* return messages; self.chat_data.extend(messages); next table
ReturnMessages(result) ==
    /\ chat_data' = chat_data \o result
    /\ tbl_idx' = tbl_idx + 1
    /\ pc' = "table_loop"

\* extract_chat_data up to the batch loop: roles, select list
extract_begin ==
    /\ pc = "extract"
    /\ fmap' = field_mapping_of(cur_columns)
    /\ cur_select_fields' = select_fields_of(cur_columns)
    /\ cur_messages' = <<>>
    /\ offset' = 0
    /\ IF select_fields_of(cur_columns) = <<>>
       THEN ReturnMessages(<<>>)
       ELSE pc' = "fetch" /\ UNCHANGED <<chat_data, tbl_idx>>
    /\ UNCHANGED <<fnVars, envVars, connVars, chat_tables, cur_columns, outVars,
                   databases, order, db_idx, clock, exit_status, log>>

\* mutation of the except block: the records built before the failure are dropped
FetchFailedDropPartial ==
    /\ ReturnMessages(<<>>)
    /\ UNCHANGED <<cur_messages, offset, clock>>

\* except Exception: log; return messages
FetchFailed ==
    /\ ReturnMessages(cur_messages)
    /\ UNCHANGED <<cur_messages, offset, clock>>

\* mutation of the batch loop: the offset advances by one row less than fetched
NextOffsetShort == offset + batch_size - 1

NextOffset == offset + batch_size

\* one pass of "while True": SELECT ... LIMIT batch_size OFFSET offset; an
\* empty result ends the loop, otherwise one record per row is appended
fetch_batch ==
    /\ pc = "fetch"
    /\ \E failed \in BOOLEAN :
          IF failed THEN FetchFailed
          ELSE LET n == Len(CurTable.rows)
                   last == IF offset + batch_size < n THEN offset + batch_size ELSE n
               IN  IF offset >= n
                   THEN /\ ReturnMessages(cur_messages)
                        /\ UNCHANGED <<cur_messages, offset, clock>>
                   ELSE /\ cur_messages' = cur_messages \o
                              build_batch(CurDb, CurTable, fmap, cur_select_fields,
                                          offset + 1, last, clock)
                        /\ clock' = clock + (last - offset)
                        /\ offset' = NextOffset
                        /\ UNCHANGED <<chat_data, tbl_idx, pc>>
    /\ UNCHANGED <<fnVars, envVars, connVars, chat_tables, cur_columns,
                   cur_select_fields, fmap, outVars, databases, order, db_idx,
                   exit_status, log>>

\* KeyboardInterrupt, observed between databases, between tables and between
\* batches: inside the try block finally closes the connection; main exits with
\* status 1
interrupt ==
    /\ pc \in {"db_loop", "table_loop", "fetch"}
    /\ IF conn = "open" /\ pc /= "db_loop"
       THEN conn' = "closed" /\ n_open' = n_open - 1
       ELSE UNCHANGED <<conn, n_open>>
    /\ Exit(1, <<LogEntry("INFO", "interrupted by user", "")>>)
    /\ UNCHANGED <<fnVars, envVars, attempt, cd_conn, tblVars, exVars, outVars,
                   databases, chat_data, order, db_idx, clock>>

\* mutation of the end of the database loop: every mode that has gathered
\* something goes on to save_to_json
dbs_done_save_any_mode ==
    /\ pc = "db_loop" /\ db_idx > Len(order)
    /\ IF chat_data = <<>> /\ table_info = <<>>
       THEN Exit(0, <<LogEntry("WARNING", "no chat records extracted", "")>> \o MainSuccess)
       ELSE pc' = "save" /\ UNCHANGED <<exit_status, log>>
    /\ UNCHANGED <<fnVars, envVars, connVars, tblVars, exVars, outVars,
                   databases, chat_data, order, db_idx, clock>>

\* the database loop is over. Full mode: extract_all_chats returns to run, which
\* returns without saving when nothing was extracted. --show-tables returns;
\* --csv-tables writes the CSV file when a table was recorded
dbs_done ==
    /\ pc = "db_loop" /\ db_idx > Len(order)
    /\ IF mode = "full"
       THEN IF chat_data = <<>>
            THEN /\ Exit(0, <<LogEntry("WARNING", "no chat records extracted", "")>>
                            \o MainSuccess)
                 /\ UNCHANGED csv_writes
            ELSE pc' = "save" /\ UNCHANGED <<exit_status, log, csv_writes>>
       ELSE /\ Exit(0, <<>>)
            /\ csv_writes' = IF mode = "csv_tables" /\ table_info /= <<>>
                             THEN csv_writes + 1 ELSE csv_writes
    /\ UNCHANGED <<fnVars, envVars, connVars, tblVars, exVars, table_info,
                   primary_writes, databases, chat_data, order, db_idx, clock>>

\* save_to_json: mkdir, open(output_file, 'w'), json.dump; an exception is
\* re-raised to run and main
save_to_json ==
    /\ pc = "save"
    /\ \E outcome \in {"ok", "mkdir_error", "write_error"} :
          /\ primary_writes' = IF outcome = "mkdir_error" THEN primary_writes
                               ELSE primary_writes + 1
          /\ IF outcome = "ok"
             THEN Exit(0, <<LogEntry("INFO", "saved", "")>> \o MainSuccess)
             ELSE Exit(1, Failure("saving the JSON file failed"))
    /\ UNCHANGED <<fnVars, envVars, connVars, tblVars, exVars, table_info, csv_writes,
                   databases, chat_data, order, db_idx, clock>>

Next ==
    \/ Main_Start
    \/ load_keys
    \/ run_check_databases
    \/ test_info_print
    \/ tables_mode_start
    \/ db_begin
    \/ connect_open
    \/ connect_probe
    \/ connect_exhausted
    \/ list_tables
    \/ validate_table
    \/ tables_done
    \/ extract_begin
    \/ fetch_batch
    \/ interrupt
    \/ dbs_done
    \/ save_to_json

Spec == Init /\ [][Next]_vars

(***************************************************************************)
(* Claims about the run.                                                   *)
(***************************************************************************)
\* for every stored table: its lowercased columns, the roles resolved for them,
\* the select list and the rows as the select list fetches them
StoredTables == UNION { { <<d.path, d.tables[i].name>> : i \in DOMAIN d.tables } : d \in Catalog }

TableFacts ==
    [pt \in StoredTables |->
        LET t == TableOf(pt[1], pt[2])
            cols == MapLower(t.columns)
            sf == select_fields_of(cols)
        IN  [table |-> t, columns |-> cols, roles |-> field_mapping_of(cols),
             select |-> sf, rows |-> [r \in DOMAIN t.rows |-> select_row(t, sf, r)]]]

\* the facts of the stored table a record was extracted from
RecFacts(m) == TableFacts[<<m["database_path"].s, m["table_name"].s>>]
RecTable(m) == RecFacts(m).table
RecRoles(m) == RecFacts(m).roles

\* the stored row a record was built from
RecRow(m) ==
    LET f == RecFacts(m)
        db == [path |-> m["database_path"].s, type |-> m["database_type"].s]
    IN  CHOOSE r \in DOMAIN f.rows :
            build_message(db, f.table.name, f.roles, f.select, f.rows[r],
                          m["extracted_at"].lo) = m

(***************************************************************************)
(* C1. For a table whose sender role and msgid role resolve to the same    *)
(* column, every record carries both sender and message_id, set to that    *)
(* column's value, its timestamp derived from the time column and its      *)
(* content from the content column; a table extracted without a failure    *)
(* yields one record per row.                                              *)
(***************************************************************************)
C1_SenderAndMessageIdBothMapped ==
    \A i \in DOMAIN chat_data :
        LET m == chat_data[i]
            fm == RecRoles(m)
        IN  (fm.sender /= "" /\ fm.sender = fm.msgid) =>
                /\ "sender" \in DOMAIN m
                /\ "message_id" \in DOMAIN m
                /\ m["sender"] = m["message_id"]
                /\ fm.time /= "" => "timestamp" \in DOMAIN m
                /\ fm.content /= "" => "content" \in DOMAIN m

(***************************************************************************)
(* C2. Whatever way the attempts of connect_database fail (at the connect  *)
(* call, at the key PRAGMA or at the probe query), connect_database        *)
(* returns and extract_all_chats goes on to the next database: a step      *)
(* taken inside connect_database never ends the run.                       *)
(***************************************************************************)
C2_ConnectFailureNeverEndsRun ==
    [][(pc \in {"connect", "probe"}) => pc' /= "exit"]_vars

PosInDatabases(path) == CHOOSE k \in DOMAIN databases : databases[k].path = path
PosInOrder(path) == CHOOSE k \in DOMAIN order : order[k].path = path

C4_MessageDatabasesFirstInOrder ==
    mode = "full" =>
        /\ \A i, j \in DOMAIN order :
              i < j =>
                 /\ ~(order[i].type /= "Message" /\ order[j].type = "Message")
                 /\ (order[i].type = "Message") = (order[j].type = "Message")
                       => PosInDatabases(order[i].path) < PosInDatabases(order[j].path)
        /\ pc \notin {"main", "load_keys", "loaded"} =>
              { order[i] : i \in DOMAIN order } = { databases[i] : i \in DOMAIN databases }
        /\ \A i, j \in DOMAIN chat_data :
              i < j =>
                 LET a == chat_data[i]
                     b == chat_data[j]
                     pa == PosInOrder(a["database_path"].s)
                     pb == PosInOrder(b["database_path"].s)
                 IN  /\ pa <= pb
                     /\ ~(a["database_type"].s /= "Message" /\ b["database_type"].s = "Message")
                     /\ pa = pb => ~SortKeyLess(b["table_name"].s, a["table_name"].s)
                     /\ (pa = pb /\ a["table_name"] = b["table_name"])
                           => RecRow(a) < RecRow(b)

\* C4 witness: the descriptor list names a database of another type before a
\* Message database, and the aggregate holds records of both, of two tables of
\* the Message database and of two rows of one table
C4_Witness ==
    /\ mode = "full" /\ pc = "exit" /\ Len(databases) = 2
    /\ databases[1].type /= "Message" /\ databases[2].type = "Message"
    /\ \E i, j, k \in DOMAIN chat_data :
          /\ i < j /\ j < k
          /\ chat_data[i]["table_name"] = chat_data[j]["table_name"]
          /\ chat_data[j]["table_name"] /= chat_data[k]["table_name"]
          /\ chat_data[j]["database_path"] = chat_data[k]["database_path"]
    /\ chat_data[Len(chat_data)]["database_type"].s /= "Message"

(***************************************************************************)
(* C5. When a fetch fails in the middle of a table, the records built from *)
(* the table so far are appended to the aggregate, the table is left, and  *)
(* the loop stands at the next chat table of the same database with the    *)
(* connection still open; the records aggregated before are never changed. *)
(***************************************************************************)
IsPrefix(p, q) == Len(p) <= Len(q) /\ SubSeq(q, 1, Len(p)) = p

C5_PartialResultsKeptAndLoopContinues ==
    [][ /\ IsPrefix(chat_data, chat_data')
        /\ (pc = "fetch" /\ offset < Len(CurTable.rows) /\ pc' = "table_loop") =>
              /\ chat_data' = chat_data \o cur_messages
              /\ tbl_idx' = tbl_idx + 1
              /\ db_idx' = db_idx /\ chat_tables' = chat_tables
              /\ conn' = "open" /\ exit_status' = -1 ]_vars

\* C5 witness: the first table failed after its first batch, the two records of
\* that batch were kept, and the next table of the database was then extracted
C5_Witness ==
    /\ pc = "table_loop" /\ tbl_idx = 3 /\ Len(chat_tables) = 2
    /\ Len(chat_data) = 3
    /\ chat_data[1]["table_name"] = chat_data[2]["table_name"]
    /\ Len(RecTable(chat_data[1]).rows) = 3
    /\ chat_data[3]["table_name"] /= chat_data[1]["table_name"]

(***************************************************************************)
(* C6. The primary artifact is opened for writing at most once, only in    *)
(* the full mode and only after every database was processed and closed;   *)
(* a run that was interrupted or aborted has not written it, and the other *)
(* modes never write it.                                                   *)
(***************************************************************************)
C6_PrimaryArtifactWrittenOnceAtEnd ==
    /\ primary_writes \in {0, 1}
    /\ primary_writes = 1 =>
          /\ mode = "full"
          /\ pc = "exit"
          /\ db_idx > Len(order)
          /\ n_open = 0
          /\ chat_data /= <<>>
    /\ (\E i \in DOMAIN log : log[i].msg = "interrupted by user") => primary_writes = 0

\* C6 witness: a full run has written the artifact and ended successfully
C6_Witness ==
    primary_writes = 1 /\ exit_status = 0 /\ Len(order) = 2

(***************************************************************************)
(* C7. A readable key resource that yields no usable database descriptor   *)
(* ends the full run with a failure status and without extraction, whereas *)
(* a run that processed its databases and extracted no record ends with    *)
(* the success status after reporting it.                                  *)
(***************************************************************************)
C7_NoDescriptorsIsFatal ==
    (mode = "full" /\ pc = "exit" /\ keys_file.state = "ok") =>
        /\ databases = <<>> => (exit_status /= 0 /\ order = <<>>)
        /\ (databases /= <<>> /\ db_idx > Len(order) /\ chat_data = <<>>) =>
              /\ exit_status = 0
              /\ \E i \in DOMAIN log : log[i].msg = "no chat records extracted"

(***************************************************************************)
(* Specification of the record of one row: the columns of a one-row table  *)
(* and the cells of its row are drawn; validate_chat_table and, for a      *)
(* valid table, extract_chat_data are applied to it.                       *)
(***************************************************************************)
RecColPool ==
    {"MesLocalID", "MsgCreateTime", "MsgContent", "Sender", "table_name",
     "database_type", "rowid", "Status"}

CellPool == {NullV, IntV(0, 7), IntV(1700, 5), StrV("v")}

\* the descriptor and the table name the drawn table is extracted under
RecDb == [type |-> "Message", path |-> "/w/Message/msg_9.db"]
RecTableName == "Chat_9"

RecordInit ==
    /\ fn = "extract_row"
    /\ fn_in \in UNION { { [columns |-> cs, row |-> r] : r \in [DOMAIN cs -> CellPool] } :
                         cs \in DistinctSeqs(RecColPool, MaxRecCols) }
    /\ fn_out = <<>>
    /\ fn_done = FALSE
    /\ MainIdle

\* the table loop body of extract_all_chats for the drawn table, no query failing
extract_row(table_columns, row) ==
    LET result == validate_chat_table(table_columns, 1, FALSE)
        columns == result[2]
        table == Table(RecTableName, table_columns, <<row>>)
        sf == select_fields_of(columns)
    IN  [valid |-> result[1],
         columns |-> columns,
         roles |-> field_mapping_of(columns),
         select_fields |-> sf,
         messages |-> IF result[1] /\ sf /= <<>>
                      THEN build_batch(RecDb, table, field_mapping_of(columns), sf, 1, 1, 0)
                      ELSE <<>>]

RecordApply ==
    /\ fn = "extract_row"
    /\ ~fn_done
    /\ fn_out' = extract_row(fn_in.columns, fn_in.row)
    /\ fn_done' = TRUE
    /\ UNCHANGED <<fn, fn_in, mainVars>>

RecordNext == RecordApply

SpecRecord == RecordInit /\ [][RecordNext]_vars

\* the roles that resolved to the column c, as the canonical fields they fill
\* (the time role fills timestamp_raw with the value and timestamp with its
\* conversion)
CanonicalFieldsOf(roles, c) ==
    { f \in {"sender", "timestamp_raw", "content", "message_id", "message_type"} :
        \/ f = "sender" /\ roles.sender = c
        \/ f = "timestamp_raw" /\ roles.time = c
        \/ f = "content" /\ roles.content = c
        \/ f = "message_id" /\ roles.msgid = c
        \/ f = "message_type" /\ roles.type = c }

RecordExtracted == fn = "extract_row" /\ fn_done /\ fn_out.valid

(***************************************************************************)
(* C11. In the record of a row of a validated table, each column that no   *)
(* role claims and that is not rowid appears under its own (lowercased)    *)
(* name with the row's value, and the value of each role-claimed column    *)
(* appears under the canonical field of each role that claims it: no       *)
(* column's value is lost or replaced by another column's value.           *)
(***************************************************************************)
C11_EveryColumnValueKeptInRecord ==
    RecordExtracted =>
        /\ Len(fn_out.messages) = 1
        /\ \A j \in DOMAIN fn_in.columns :
              LET m == fn_out.messages[1]
                  c == fn_out.columns[j]
                  v == decode_field(fn_in.row[j])
                  fields == CanonicalFieldsOf(fn_out.roles, c)
              IN  /\ (fields = {} /\ c /= "rowid") => (c \in DOMAIN m /\ m[c] = v)
                  /\ \A f \in fields : f \in DOMAIN m /\ m[f] = v

(***************************************************************************)
(* C12. Every emitted record contains database_path, database_type,        *)
(* table_name and extracted_at, and a canonical role field (sender,        *)
(* timestamp, timestamp_raw, content, message_id, message_type) is in the  *)
(* record only if a column was resolved for its role in the record's       *)
(* table.                                                                  *)
(***************************************************************************)
C12_ProvenanceAlwaysRolesOnlyIfResolved ==
    RecordExtracted =>
        \A i \in DOMAIN fn_out.messages :
            LET m == fn_out.messages[i]
                fm == fn_out.roles
            IN  /\ {"database_path", "database_type", "table_name", "extracted_at"}
                      \subseteq DOMAIN m
                /\ "sender" \in DOMAIN m => fm.sender /= ""
                /\ "timestamp" \in DOMAIN m => fm.time /= ""
                /\ "timestamp_raw" \in DOMAIN m => fm.time /= ""
                /\ "content" \in DOMAIN m => fm.content /= ""
                /\ "message_id" \in DOMAIN m => fm.msgid /= ""
                /\ "message_type" \in DOMAIN m => fm.type /= ""

(***************************************************************************)
(* C17. In every emitted record database_path, database_type and           *)
(* table_name are the path and type of the descriptor being processed and  *)
(* the name of the table the row was fetched from, whatever the table's    *)
(* columns are called.                                                     *)
(***************************************************************************)
C17_ProvenanceFieldsNameTheSource ==
    RecordExtracted =>
        \A i \in DOMAIN fn_out.messages :
            LET m == fn_out.messages[i]
            IN  /\ m["database_path"] = StrV(RecDb.path)
                /\ m["database_type"] = StrV(RecDb.type)
                /\ m["table_name"] = StrV(RecTableName)

(***************************************************************************)
(* Specification of _convert_timestamp: a value is drawn, then converted.  *)
(* Integers are drawn around the two thresholds (1e9 = 1000 * NumBase,     *)
(* 1e12 = 1000000 * NumBase) and on both sides of the last second datetime *)
(* can hold, some days away from it, since fromtimestamp gives local time. *)
(***************************************************************************)
TsHiPool ==
    {-1, 0, 999, 1000, 1700, 253402, 253403, 1000000, 1700000,
     253402000, 253403000, 1000000000}
TsLoPool == {0, 1, 500, 1000, 999999}
TsTextPool ==
    {"", "abc", "2023-11-14 22:13:20", "2023-11-14T22:13:20", "2023-02-30 10:00:00",
     "1700000000"}

TimestampInit ==
    /\ fn = "convert_timestamp"
    /\ fn_in \in { IntV(hi, lo) : hi \in TsHiPool, lo \in TsLoPool }
                 \cup { StrV(t) : t \in TsTextPool } \cup {NullV}
    /\ fn_out = <<>>
    /\ fn_done = FALSE
    /\ MainIdle

TimestampApply ==
    /\ fn = "convert_timestamp"
    /\ ~fn_done
    /\ fn_out' = convert_timestamp(fn_in)
    /\ fn_done' = TRUE
    /\ UNCHANGED <<fn, fn_in, mainVars>>

TimestampNext == TimestampApply

SpecTimestamp == TimestampInit /\ [][TimestampNext]_vars

\* comparisons of n = hi * NumBase + lo with 1e9, with 1e12 and with the last
\* second of the year 9999 (in seconds and in milliseconds)
Above1e9(v) == v.hi > 1000 \/ (v.hi = 1000 /\ v.lo >= 1)
Above1e12(v) == v.hi > 1000000 \/ (v.hi = 1000000 /\ v.lo >= 1)
SecondsWithinDatetime(v) == v.hi <= 253401 \/ (v.hi = 253402 /\ v.lo < 300800)
MillisWithinDatetime(v) == v.hi < 253402300 \/ (v.hi = 253402300 /\ v.lo < 800000)

\* the instant of a result, in milliseconds, as a pair
InstantOf(r) == <<r.hi, r.lo>>
\* 1000 * n as a pair
MillisOfSeconds(v) ==
    <<v.hi * 1000 + (v.lo \div 1000), (v.lo % 1000) * 1000>>

TimestampConverted == fn = "convert_timestamp" /\ fn_done

(***************************************************************************)
(* C13 (as amended). _convert_timestamp puts every integer v in exactly    *)
(* one case: v > 1e12 is a millisecond epoch, 1e9 < v <= 1e12 a second     *)
(* epoch, v <= 1e9 yields null; in the first two cases the result is the   *)
(* ISO text of that instant when the instant lies within the years         *)
(* datetime can hold (up to 9999) and null beyond. So for every integer s  *)
(* with 1e9 < s <= 1e12 the results for s and for 1000 * s are the same:   *)
(* the same instant, or null for both. A string that does not parse as an  *)
(* ISO date and time is returned unchanged.                                *)
(***************************************************************************)
C13_ConvertTimestampCasesWithinRange ==
    TimestampConverted =>
        /\ (fn_in.t = "int" /\ Above1e12(fn_in)) =>
              IF MillisWithinDatetime(fn_in)
              THEN fn_out.t = "iso" /\ InstantOf(fn_out) = InstantOf(fn_in)
              ELSE fn_out = NullV
        /\ (fn_in.t = "int" /\ Above1e9(fn_in) /\ ~Above1e12(fn_in)) =>
              /\ IF SecondsWithinDatetime(fn_in)
                 THEN fn_out.t = "iso" /\ InstantOf(fn_out) = MillisOfSeconds(fn_in)
                 ELSE fn_out = NullV
              /\ LET ms == MillisOfSeconds(fn_in)
                 IN  fn_out = convert_timestamp(IntV(ms[1], ms[2]))
        /\ (fn_in.t = "int" /\ ~Above1e9(fn_in)) => fn_out = NullV
        /\ (fn_in.t = "str" /\ fn_in.s \in {"", "abc", "2023-02-30 10:00:00", "1700000000"}) =>
              fn_out = fn_in

\* C13 witness: a second epoch of 2023 was converted to the instant that its
\* millisecond form denotes
C13_Witness ==
    /\ TimestampConverted
    /\ fn_in = IntV(1700, 500)
    /\ fn_out = IsoV([hi |-> 1700000, lo |-> 500000])
    /\ fn_out = convert_timestamp(IntV(1700000, 500000))

\* C13 as stated: every v > 1e12 is converted as a millisecond epoch and every
\* v with 1e9 < v <= 1e12 as a second epoch, so the result always denotes an
\* instant
C13_Original_EveryValueAboveThresholdConverted ==
    TimestampConverted =>
        /\ (fn_in.t = "int" /\ Above1e12(fn_in)) =>
              fn_out.t = "iso" /\ InstantOf(fn_out) = InstantOf(fn_in)
        /\ (fn_in.t = "int" /\ Above1e9(fn_in) /\ ~Above1e12(fn_in)) =>
              fn_out.t = "iso" /\ InstantOf(fn_out) = MillisOfSeconds(fn_in)
        /\ (fn_in.t = "int" /\ ~Above1e9(fn_in)) => fn_out = NullV
        /\ (fn_in.t = "str" /\ fn_in.s \in {"", "abc", "2023-02-30 10:00:00", "1700000000"}) =>
              fn_out = fn_in

(***************************************************************************)
(* The phase of the database at position i of the processing order, read   *)
(* from the position of the run: Pending until connect_database returned,  *)
(* Connected while its tables are listed, Extracting in the table loop,    *)
(* Closed once the loop has moved past it, Abandoned when the run ended    *)
(* while the loop was still at it. (Failed, TablesListed and Skipped are   *)
(* passed within the step that leaves Pending or Connected.)               *)
(***************************************************************************)
DbPhase(p, idx, i) ==
    IF i < idx THEN "Closed"
    ELSE IF i > idx THEN "Pending"
    ELSE IF p \in {"db_loop", "connect", "probe"} THEN "Pending"
    ELSE IF p = "list_tables" THEN "Connected"
    ELSE IF p \in {"table_loop", "extract", "fetch"} THEN "Extracting"
    ELSE "Abandoned"

PhaseSteps ==
    { <<"Pending", "Connected">>, <<"Pending", "Closed">>,
      <<"Connected", "Extracting">>, <<"Connected", "Closed">>,
      <<"Extracting", "Closed">> }

\* the step is the one in which main handles KeyboardInterrupt
InterruptStep ==
    /\ pc' = "exit"
    /\ Len(log') > Len(log)
    /\ log'[Len(log')].msg = "interrupted by user"

(***************************************************************************)
(* C14. Unless the user interrupts the run, each database of the full run  *)
(* only moves Pending -> Connected -> (Skipped | Extracting) -> Closed, or *)
(* Pending -> Failed -> Closed when no connection could be made, so the    *)
(* run never ends at a database that is not Closed; a database skipped for *)
(* want of chat tables adds no record and leaves the order of the          *)
(* databases that follow as it was.                                        *)
(***************************************************************************)
C14_DatabaseLifecycle ==
    [][ (mode = "full" /\ ~InterruptStep) =>
           /\ \A i \in DOMAIN order :
                 LET before == DbPhase(pc, db_idx, i)
                     after == DbPhase(pc', db_idx', i)
                 IN  before = after \/ <<before, after>> \in PhaseSteps
           /\ (pc = "list_tables" /\ pc' = "db_loop") =>
                 /\ chat_data' = chat_data
                 /\ order' = order
                 /\ db_idx' = db_idx + 1
                 /\ n_open' = 0 ]_vars

(***************************************************************************)
(* The key encodings, written out for the claims about connect_database.   *)
(***************************************************************************)
IsHexPrefixed(k) ==
    Len(k) >= 2 /\ SubSeq(k, 1, 2) = "x'" /\ SubSeq(k, Len(k), Len(k)) = "'"
BareHex(k) == IF IsHexPrefixed(k) THEN SubSeq(k, 3, Len(k) - 1) ELSE k
Quoted(k) == "\"" \o k \o "\""
HexWrapped(k) == "x'" \o k \o "'"

\* the encodings in the order connect_database tries them
TriedOrder(k) ==
    IF IsHexPrefixed(k) THEN <<k, k, Quoted(k), BareHex(k)>>
    ELSE <<k, Quoted(k), HexWrapped(k)>>

\* the encodings in the order the claim gives
ClaimedOrder(k) == <<k, BareHex(k), Quoted(k), BareHex(k)>>

Connecting == pc \in {"connect", "probe"}

(***************************************************************************)
(* C15 (as amended). For a key given as x'<hex>' connect_database tries,   *)
(* in this order, the key as given, the key as given once more, the key in *)
(* double quotes and the bare hex; for any other key it tries the key as   *)
(* given, the key in double quotes and the key wrapped as x'<key>'. The    *)
(* attempts are made one after the other from the first; the handle of the *)
(* first encoding whose probe query succeeds is returned and no later      *)
(* encoding is tried; connect_database returns without a handle only after *)
(* every encoding was tried and failed, with no connection left open. (It  *)
(* is left by an exception only when the connect call of the first attempt *)
(* raises.)                                                                *)
(***************************************************************************)
C15_KeyEncodingsTriedInOrder ==
    /\ [](pc \in {"connect", "probe", "list_tables"} =>
            /\ key_formats_of(CurDb.key) = TriedOrder(CurDb.key)
            /\ attempt >= 1
            /\ pc /= "connect" => attempt <= Len(TriedOrder(CurDb.key)))
    /\ [][ /\ (pc = "db_loop" /\ pc' = "connect") => attempt' = 1
           /\ (Connecting /\ pc' \in {"connect", "probe"}) =>
                 /\ attempt' \in {attempt, attempt + 1}
                 /\ attempt' = attempt + 1 => n_open' = 0
                 /\ db_idx' = db_idx
           /\ (Connecting /\ pc' = "list_tables") =>
                 /\ pc = "probe"
                 /\ attempt' = attempt
                 /\ conn' = "open" /\ n_open' = 1
           /\ (Connecting /\ pc' = "db_loop") =>
                 /\ pc = "connect"
                 /\ attempt > Len(TriedOrder(CurDb.key))
                 /\ conn' /= "open" /\ n_open' = 0
           /\ (Connecting /\ pc' = "exit") =>
                 pc = "connect" /\ attempt = 1 /\ cd_conn = "unbound" ]_vars

\* C15 witness: the third encoding of a hex-prefixed key, the quoted key, was
\* the first whose probe succeeded, and its handle was returned
C15_Witness ==
    /\ pc = "list_tables"
    /\ conn = "open"
    /\ IsHexPrefixed(CurDb.key)
    /\ attempt = 3
    /\ key_formats_of(CurDb.key)[attempt] = Quoted(CurDb.key)

\* C15 as stated: the encodings are the hex-prefixed key as given, the key
\* stripped of its wrapping markers, the quoted key and the bare hex
C15_Original_StrippedFormSecond ==
    pc \in {"connect", "probe", "list_tables"} =>
        key_formats_of(CurDb.key) = ClaimedOrder(CurDb.key)

(***************************************************************************)
(* C16. While no fetch of a table fails, the batch loop of                 *)
(* extract_chat_data fetches at the offsets 0, B, 2B, ... (B = batch_size),*)
(* each pass adding one record per fetched row, in row order; it ends at   *)
(* the first offset at or beyond the number N of rows, where the batch is  *)
(* empty, and then hands over exactly N records, the record of each row    *)
(* once and in row order.                                                  *)
(***************************************************************************)
\* the record of row r of the table being extracted, built at time now
CurRecord(r, now) ==
    LET f == TableFacts[<<CurDb.path, CurTableName>>]
    IN  build_message(CurDb, CurTableName, f.roles, f.select, f.rows[r], now)

Min(a, b) == IF a <= b THEN a ELSE b

C16_BatchLoopFetchesEachRowOnce ==
    /\ [](pc = "fetch" =>
            LET n == Len(CurTable.rows)
            IN  /\ offset % batch_size = 0
                /\ offset < n + batch_size
                /\ Len(cur_messages) = Min(offset, n)
                /\ \A r \in DOMAIN cur_messages :
                      cur_messages[r] = CurRecord(r, cur_messages[r]["extracted_at"].lo))
    /\ [][ /\ (pc = "fetch" /\ pc' = "fetch") =>
                 /\ offset < Len(CurTable.rows)
                 /\ offset' = offset + batch_size
                 /\ IsPrefix(cur_messages, cur_messages')
           /\ (pc = "extract" /\ pc' = "fetch") => (offset' = 0 /\ cur_messages' = <<>>)
           /\ (pc = "fetch" /\ offset >= Len(CurTable.rows) /\ pc' = "table_loop") =>
                 /\ chat_data' = chat_data \o cur_messages
                 /\ Len(chat_data') = Len(chat_data) + Len(CurTable.rows) ]_vars

\* C16 witness: a table of three rows was fetched in two batches and the loop
\* stands at the third offset, where the batch is empty, with three records
C16_Witness ==
    /\ pc = "fetch"
    /\ Len(CurTable.rows) = 3
    /\ offset = 2 * batch_size
    /\ Len(cur_messages) = 3
    /\ cur_messages[3]["extracted_at"].lo = cur_messages[1]["extracted_at"].lo + 2

====
